---- MODULE Spec2Model ----
(***************************************************************************)
(* Camera path of the map videos: with-animation.py (zoom / hold-and-shake  *)
(* sequence, bounds resolution, easing) and main.py (one frame per reveal). *)
(*                                                                         *)
(* Numbers.  Python floats are modelled by exact fixed-point rationals:     *)
(*   - a camera region (WORLD_BOUNDS, current_bounds, target_bounds) holds  *)
(*     integers in units of 1/Q of a map unit, Q = 2*9*16, which is the     *)
(*     common denominator of every division get_target_bounds performs on   *)
(*     integer raw bounds (/2, /(9/16), *(9/16));                           *)
(*   - an eased progress value ease(n/d) is its numerator over d^3;         *)
(*   - a rendered frame's axis limits are integers in units of 1/(Q*D),     *)
(*     D = ZOOM_FRAMES^3, the denominator the interpolation adds.           *)
(* Rounding of IEEE doubles is not modelled.                                *)
(***************************************************************************)
EXTENDS Integers, Sequences, FiniteSets, TLC

VARIABLES
    \* ---- create_video of with-animation.py / main.py
    script,             \* which script runs: "animation" or "reveal"
    targets,            \* DATA_COUNTRIES, the list of target names
    world,              \* the lookup source: name -> raw total_bounds
    pc,                 \* position in create_video
    c,                  \* number of countries the for loop has entered
    i,                  \* index of the innermost frame loop
    frame_count,        \* nonlocal frame_count
    current_bounds,
    target_bounds,
    current_highlights,
    frame,              \* the last frame handed to the renderer
    held,               \* the region the last hold-phase frame was rendered on (before jitter)
    \* ---- one call of get_target_bounds
    gb_name, gb_raw, gb_pad, gb_state, gb_padded, gb_result,
    \* ---- ease_in_out sampled along a grid n/d
    es_grid, es_d, es_n, es_y, es_prev

vars == <<script, targets, world, pc, c, i, frame_count, current_bounds,
          target_bounds, current_highlights, frame, held,
          gb_name, gb_raw, gb_pad, gb_state, gb_padded, gb_result,
          es_grid, es_d, es_n, es_y, es_prev>>

videoVars == <<script, targets, world, pc, c, i, frame_count, current_bounds,
               target_bounds, current_highlights, frame, held>>
boundsVars == <<gb_name, gb_raw, gb_pad, gb_state, gb_padded, gb_result>>
easeVars == <<es_grid, es_d, es_n, es_y, es_prev>>

(***************************************************************************)
(* Bounds of the model                                                     *)
(***************************************************************************)
MaxTargets == 2      \* longest target list tried
ShakeSteps == 1      \* random.uniform(-s, s) is sampled at k*s/ShakeSteps
MaxOrigin == 1       \* raw minx, miny range over -MaxOrigin..MaxOrigin
MaxExtent == 13      \* raw maxx-minx, maxy-miny range over 0..MaxExtent
MaxPad == 2          \* pads tried: 0..MaxPad and the default
Samples == 100       \* evenly spaced sample points of [0,1]

(***************************************************************************)
(* Program constants                                                       *)
(***************************************************************************)
ZOOM_FRAMES == 25
HOLD_FRAMES == 45
INTRO_FRAMES == 30
FINAL_FRAMES == 60
DEFAULT_PAD == 15
SHAKE_TENTHS == 8    \* shake_intensity=0.8, in tenths

Q == 2 * 9 * 16
D == ZOOM_FRAMES * ZOOM_FRAMES * ZOOM_FRAMES

\* WORLD_BOUNDS = [-170, 170, -55, 85], as [min-x, max-x, min-y, max-y]
WORLD_BOUNDS == << (0 - 170) * Q, 170 * Q, (0 - 55) * Q, 85 * Q >>

(***************************************************************************)
(* ease_in_out(t) = t*t*(3.0 - 2.0*t) for t = n/d: the numerator of the     *)
(* result over d^3.                                                        *)
(***************************************************************************)
\* variant: t * (3.0 - 2.0 * t), one factor t dropped
ease_in_out_linear_factor(n, d) == n * d * (3 * d - 2 * n)

ease_in_out(n, d) == n * n * (3 * d - 2 * n)

(***************************************************************************)
(* get_target_bounds                                                       *)
(***************************************************************************)
\* bounds = gdf[gdf.name == country_name].total_bounds;
\* minx, miny, maxx, maxy = bounds.  The lookup source is a function from the
\* names that have a row to their raw bounds.  A name without a row takes the
\* `except ValueError` branch: the only failure of the lookup the code handles.
LookupRaises(gdf, country_name) == country_name \notin DOMAIN gdf

\* variant: the pad is subtracted from width and height
Padded_subtracting(b, pad) ==
    [cx |-> ((b[1] + b[3]) * Q) \div 2,
     cy |-> ((b[2] + b[4]) * Q) \div 2,
     w  |-> ((b[3] - b[1]) - pad) * Q,
     h  |-> ((b[4] - b[2]) - pad) * Q]

\* centre and padded width/height, in units of 1/Q
Padded(b, pad) ==
    [cx |-> ((b[1] + b[3]) * Q) \div 2,
     cy |-> ((b[2] + b[4]) * Q) \div 2,
     w  |-> ((b[3] - b[1]) + pad) * Q,
     h  |-> ((b[4] - b[2]) + pad) * Q]

\* w / h with h = 0
RatioRaises(p) == p.h = 0

\* variant: the longer side is cut instead of the shorter one grown
ForceRatio_shrinking(p) ==
    IF p.w * 16 > p.h * 9
    THEN [p EXCEPT !.w = (p.h * 9) \div 16]
    ELSE [p EXCEPT !.h = (p.w * 16) \div 9]

\* force 9:16: if w / h > 9/16 then h = w / (9/16) else w = h * (9/16)
ForceRatio(p) ==
    IF p.w * 16 > p.h * 9
    THEN [p EXCEPT !.h = (p.w * 16) \div 9]
    ELSE [p EXCEPT !.w = (p.h * 9) \div 16]

\* [cx - w/2, cx + w/2, cy - h/2, cy + h/2]
Box(p) == << p.cx - p.w \div 2, p.cx + p.w \div 2,
             p.cy - p.h \div 2, p.cy + p.h \div 2 >>

\* variant: an unresolved name yields an empty region, not WORLD_BOUNDS
get_target_bounds_no_fallback(gdf, country_name, pad) ==
    IF country_name = "World" THEN WORLD_BOUNDS
    ELSE IF LookupRaises(gdf, country_name) THEN <<0, 0, 0, 0>>
    ELSE Box(ForceRatio(Padded(gdf[country_name], pad)))

get_target_bounds(gdf, country_name, pad) ==
    IF country_name = "World" THEN WORLD_BOUNDS
    ELSE IF LookupRaises(gdf, country_name) THEN WORLD_BOUNDS
    ELSE Box(ForceRatio(Padded(gdf[country_name], pad)))

\* the call raises ZeroDivisionError at w / h
get_target_bounds_raises(gdf, country_name, pad) ==
    /\ country_name # "World"
    /\ ~LookupRaises(gdf, country_name)
    /\ RatioRaises(Padded(gdf[country_name], pad))


(***************************************************************************)
(* Zoom interpolation and render_frame                                     *)
(***************************************************************************)
\* a region in the units of a frame's axis limits
Fine(b) == [j \in 1..4 |-> b[j] * D]

\* variant: t = i / float(ZOOM_FRAMES), without the easing
InterpBounds_uneased(cur, tgt, idx) ==
    [j \in 1..4 |->
        cur[j] * D + (tgt[j] - cur[j]) * (idx * ZOOM_FRAMES * ZOOM_FRAMES)]

\* t = ease_in_out(i / float(ZOOM_FRAMES));
\* interp_bounds[j] = current_bounds[j] + (target_bounds[j] - current_bounds[j]) * t
InterpBounds(cur, tgt, idx) ==
    [j \in 1..4 |->
        cur[j] * D + (tgt[j] - cur[j]) * ease_in_out(idx, ZOOM_FRAMES)]

\* values random.uniform(-s, s) can return, s in tenths of a map unit
Uniform(s) ==
    { (k * s * ((Q * D) \div 10)) \div ShakeSteps : k \in (0 - ShakeSteps)..ShakeSteps }

\* variant: the shake moves only the lower limit of each axis
render_frame_shake_min_only(bounds, highlights, text, shake_intensity, sx, sy, index) ==
    [xlim |-> << bounds[1] + sx, bounds[2] >>,
     ylim |-> << bounds[3] + sy, bounds[4] >>,
     highlights |-> highlights,
     text |-> text,
     bounds |-> bounds,
     shake |-> shake_intensity,
     index |-> index]

\* ax.set_xlim([bounds[0] + sx, bounds[1] + sx]);
\* ax.set_ylim([bounds[2] + sy, bounds[3] + sy]); the frame is saved under
\* the current frame_count
render_frame(bounds, highlights, text, shake_intensity, sx, sy, index) ==
    [xlim |-> << bounds[1] + sx, bounds[2] + sx >>,
     ylim |-> << bounds[3] + sy, bounds[4] + sy >>,
     highlights |-> highlights,
     text |-> text,
     bounds |-> bounds,
     shake |-> shake_intensity,
     index |-> index]

\* main.py save_frame: ax.set_xlim([-180, 180]); ax.set_ylim([-60, 90])
save_frame(highlighted_list, frame_index, bottom_text) ==
    [xlim |-> << (0 - 180) * Q * D, 180 * Q * D >>,
     ylim |-> << (0 - 60) * Q * D, 90 * Q * D >>,
     highlights |-> highlighted_list,
     text |-> bottom_text,
     bounds |-> << (0 - 180) * Q * D, 180 * Q * D, (0 - 60) * Q * D, 90 * Q * D >>,
     shake |-> 0,
     index |-> frame_index]

\* variant: the loop runs one iteration more, range(n + 1)
InRange_inclusive(idx, n) == idx <= n

\* `for idx in range(n)` has an iteration left
InRange(idx, n) == idx < n

(***************************************************************************)
(* Inputs of create_video                                                  *)
(***************************************************************************)
\* raw total_bounds (minx, miny, maxx, maxy) of the geometries tried: one
\* wider than 9:16, one taller, one a single point
Geoms == { << 0 - 20, 10, 40, 30 >>, << 70, 0 - 40, 80, 30 >>, << 5, 5, 5, 5 >> }

GdfNames == {"Russia", "Brazil"}
TargetNames == GdfNames \cup {"Atlantis", "World"}

Worlds == { w \in [GdfNames -> Geoms] :
              w["Russia"] # << 70, 0 - 40, 80, 30 >> /\ w["Brazil"] = << 70, 0 - 40, 80, 30 >> }

\* lists of up to MaxTargets names, no name twice (as in DATA_COUNTRIES)
TargetLists ==
    { l \in UNION { [1..n -> TargetNames] : n \in 0..MaxTargets } :
        \A a, b \in DOMAIN l : l[a] = l[b] => a = b }

NoFrame == render_frame(<<0, 0, 0, 0>>, << >>, <<"", "">>, 0, 0, 0, 0 - 1)

BoundsIdle ==
    /\ gb_name = "" /\ gb_raw = <<0, 0, 0, 0>> /\ gb_pad = 0
    /\ gb_state = "idle" /\ gb_padded = Padded(<<0, 0, 0, 0>>, 0)
    /\ gb_result = <<0, 0, 0, 0>>

EaseIdle == es_grid = "idle" /\ es_d = 1 /\ es_n = 0 /\ es_y = 0 /\ es_prev = 0

VideoIdle ==
    /\ script = "none" /\ targets = << >> /\ world = << >>
    /\ pc = "idle" /\ c = 0 /\ i = 0 /\ frame_count = 0
    /\ current_bounds = WORLD_BOUNDS /\ target_bounds = WORLD_BOUNDS
    /\ current_highlights = << >> /\ frame = NoFrame /\ held = WORLD_BOUNDS

Init ==
    /\ script \in {"animation", "reveal"}
    /\ targets \in TargetLists
    /\ world \in Worlds
    /\ pc = IF script = "animation" THEN "intro" ELSE "r_intro"
    /\ c = 0
    /\ i = 0
    /\ frame_count = 0
    /\ current_bounds = WORLD_BOUNDS
    /\ target_bounds = WORLD_BOUNDS
    /\ current_highlights = << >>
    /\ frame = NoFrame
    /\ held = WORLD_BOUNDS
    /\ BoundsIdle
    /\ EaseIdle

(***************************************************************************)
(* create_video of with-animation.py, one action per rendered frame and per *)
(* step between two frame loops                                            *)
(***************************************************************************)
\* 1. Start at World View: for _ in range(30): render_frame(current_bounds, [], ...)
IntroFrame ==
    /\ pc = "intro"
    /\ InRange(i, INTRO_FRAMES)
    /\ \E sx \in Uniform(0), sy \in Uniform(0) :
          frame' = render_frame(Fine(current_bounds), << >>,
                                <<"Initiating Scan...", "">>, 0, sx, sy, frame_count)
    /\ held' = current_bounds
    /\ frame_count' = frame_count + 1
    /\ i' = i + 1
    /\ UNCHANGED <<script, targets, world, pc, c, current_bounds, target_bounds,
                   current_highlights>>
    /\ UNCHANGED <<boundsVars, easeVars>>

\* the head of `for country in DATA_COUNTRIES`, reached after the intro and
\* after each hold loop
AtLoopHead ==
    \/ pc = "intro" /\ ~InRange(i, INTRO_FRAMES)
    \/ pc = "hold" /\ ~InRange(i, HOLD_FRAMES)

\* target_bounds = get_target_bounds(world, country)
BeginCountry ==
    /\ AtLoopHead
    /\ c < Len(targets)
    /\ ~get_target_bounds_raises(world, targets[c + 1], DEFAULT_PAD)  \* h >= 15: always
    /\ c' = c + 1
    /\ target_bounds' = get_target_bounds(world, targets[c + 1], DEFAULT_PAD)
    /\ pc' = "zoom_in"
    /\ i' = 0
    /\ UNCHANGED <<script, targets, world, frame_count, current_bounds,
                   current_highlights, frame, held>>
    /\ UNCHANGED <<boundsVars, easeVars>>

\* variant: every zoom starts over from the world view
ZoomInFrame_from_world ==
    /\ pc = "zoom_in"
    /\ InRange(i, ZOOM_FRAMES)
    /\ \E sx \in Uniform(0), sy \in Uniform(0) :
          frame' = render_frame(InterpBounds(WORLD_BOUNDS, target_bounds, i),
                                current_highlights, <<"Scanning: ", targets[c]>>,
                                0, sx, sy, frame_count)
    /\ frame_count' = frame_count + 1
    /\ i' = i + 1
    /\ UNCHANGED <<script, targets, world, pc, c, current_bounds, target_bounds,
                   current_highlights, held>>
    /\ UNCHANGED <<boundsVars, easeVars>>

\* ZOOM IN phase
ZoomInFrame ==
    /\ pc = "zoom_in"
    /\ InRange(i, ZOOM_FRAMES)
    /\ \E sx \in Uniform(0), sy \in Uniform(0) :
          frame' = render_frame(InterpBounds(current_bounds, target_bounds, i),
                                current_highlights, <<"Scanning: ", targets[c]>>,
                                0, sx, sy, frame_count)
    /\ frame_count' = frame_count + 1
    /\ i' = i + 1
    /\ UNCHANGED <<script, targets, world, pc, c, current_bounds, target_bounds,
                   current_highlights, held>>
    /\ UNCHANGED <<boundsVars, easeVars>>

\* variant: only the current country stays highlighted
LockTarget_replaces_highlights ==
    /\ pc = "zoom_in"
    /\ ~InRange(i, ZOOM_FRAMES)
    /\ current_highlights' = << targets[c] >>
    /\ current_bounds' = target_bounds
    /\ pc' = "hold"
    /\ i' = 0
    /\ UNCHANGED <<script, targets, world, c, frame_count, target_bounds, frame, held>>
    /\ UNCHANGED <<boundsVars, easeVars>>

\* current_highlights.append(country); current_bounds = target_bounds
LockTarget ==
    /\ pc = "zoom_in"
    /\ ~InRange(i, ZOOM_FRAMES)
    /\ current_highlights' = Append(current_highlights, targets[c])
    /\ current_bounds' = target_bounds
    /\ pc' = "hold"
    /\ i' = 0
    /\ UNCHANGED <<script, targets, world, c, frame_count, target_bounds, frame, held>>
    /\ UNCHANGED <<boundsVars, easeVars>>

\* HOLD AND SHAKE phase: render_frame(current_bounds, ..., shake_intensity=0.8)
HoldFrame ==
    /\ pc = "hold"
    /\ InRange(i, HOLD_FRAMES)
    /\ \E sx \in Uniform(SHAKE_TENTHS), sy \in Uniform(SHAKE_TENTHS) :
          frame' = render_frame(Fine(current_bounds), current_highlights,
                                <<"TARGET LOCKED: ", targets[c]>>,
                                SHAKE_TENTHS, sx, sy, frame_count)
    /\ held' = current_bounds
    /\ frame_count' = frame_count + 1
    /\ i' = i + 1
    /\ UNCHANGED <<script, targets, world, pc, c, current_bounds, target_bounds,
                   current_highlights>>
    /\ UNCHANGED <<boundsVars, easeVars>>

\* 3. Zoom back out: target_bounds = WORLD_BOUNDS
BeginZoomOut ==
    /\ AtLoopHead
    /\ c = Len(targets)
    /\ target_bounds' = WORLD_BOUNDS
    /\ pc' = "zoom_out"
    /\ i' = 0
    /\ UNCHANGED <<script, targets, world, c, frame_count, current_bounds,
                   current_highlights, frame, held>>
    /\ UNCHANGED <<boundsVars, easeVars>>

ZoomOutFrame ==
    /\ pc = "zoom_out"
    /\ InRange(i, ZOOM_FRAMES)
    /\ \E sx \in Uniform(0), sy \in Uniform(0) :
          frame' = render_frame(InterpBounds(current_bounds, target_bounds, i),
                                current_highlights, <<"Global Analysis Complete", "">>,
                                0, sx, sy, frame_count)
    /\ frame_count' = frame_count + 1
    /\ i' = i + 1
    /\ UNCHANGED <<script, targets, world, pc, c, current_bounds, target_bounds,
                   current_highlights, held>>
    /\ UNCHANGED <<boundsVars, easeVars>>

\* Final Hold Frame: current_bounds = target_bounds
BeginFinalHold ==
    /\ pc = "zoom_out"
    /\ ~InRange(i, ZOOM_FRAMES)
    /\ current_bounds' = target_bounds
    /\ pc' = "final"
    /\ i' = 0
    /\ UNCHANGED <<script, targets, world, c, frame_count, target_bounds,
                   current_highlights, frame, held>>
    /\ UNCHANGED <<boundsVars, easeVars>>

FinalFrame ==
    /\ pc = "final"
    /\ InRange(i, FINAL_FRAMES)
    /\ \E sx \in Uniform(0), sy \in Uniform(0) :
          frame' = render_frame(Fine(current_bounds), current_highlights,
                                <<"The Truth is Out There...", "">>, 0, sx, sy, frame_count)
    /\ held' = current_bounds
    /\ frame_count' = frame_count + 1
    /\ i' = i + 1
    /\ UNCHANGED <<script, targets, world, pc, c, current_bounds, target_bounds,
                   current_highlights>>
    /\ UNCHANGED <<boundsVars, easeVars>>

\* FFMPEG COMPILATION: the frame loop is over
Compile ==
    /\ pc = "final"
    /\ ~InRange(i, FINAL_FRAMES)
    /\ pc' = "done"
    /\ UNCHANGED <<script, targets, world, c, i, frame_count, current_bounds,
                   target_bounds, current_highlights, frame, held>>
    /\ UNCHANGED <<boundsVars, easeVars>>

(***************************************************************************)
(* create_video of main.py: one frame per reveal                           *)
(***************************************************************************)
\* save_frame(current_highlights, 0, "Declassifying files...")
RevealIntro ==
    /\ pc = "r_intro"
    /\ frame' = save_frame(current_highlights, 0, <<"Declassifying files...", "">>)
    /\ frame_count' = frame_count + 1
    /\ pc' = "r_reveal"
    /\ UNCHANGED <<script, targets, world, c, i, current_bounds, target_bounds,
                   current_highlights, held>>
    /\ UNCHANGED <<boundsVars, easeVars>>

\* for i, country in enumerate(DATA_COUNTRIES, 1): append, then save_frame
RevealCountry ==
    /\ pc = "r_reveal"
    /\ c < Len(targets)
    /\ c' = c + 1
    /\ current_highlights' = Append(current_highlights, targets[c + 1])
    /\ frame' = save_frame(Append(current_highlights, targets[c + 1]), c + 1,
                           <<"Target Acquired: ", targets[c + 1]>>)
    /\ frame_count' = frame_count + 1
    /\ UNCHANGED <<script, targets, world, pc, i, current_bounds, target_bounds, held>>
    /\ UNCHANGED <<boundsVars, easeVars>>

\* save_frame(current_highlights, len(DATA_COUNTRIES) + 1, ...)
RevealFinal ==
    /\ pc = "r_reveal"
    /\ c = Len(targets)
    /\ frame' = save_frame(current_highlights, Len(targets) + 1,
                           <<"The Truth is Out There...", "">>)
    /\ frame_count' = frame_count + 1
    /\ pc' = "r_done"
    /\ UNCHANGED <<script, targets, world, c, i, current_bounds, target_bounds,
                   current_highlights, held>>
    /\ UNCHANGED <<boundsVars, easeVars>>

Next ==
    \/ IntroFrame
    \/ BeginCountry
    \/ ZoomInFrame
    \/ LockTarget
    \/ HoldFrame
    \/ BeginZoomOut
    \/ ZoomOutFrame
    \/ BeginFinalHold
    \/ FinalFrame
    \/ Compile
    \/ RevealIntro
    \/ RevealCountry
    \/ RevealFinal

Spec == Init /\ [][Next]_vars


(***************************************************************************)
(* One call get_target_bounds(gdf, country_name, pad) on inputs drawn from  *)
(* bounded sets                                                            *)
(***************************************************************************)
RawInputs ==
    { << x, y, x + dx, y + dy >> :
        x \in (0 - MaxOrigin)..MaxOrigin, y \in (0 - MaxOrigin)..MaxOrigin,
        dx \in 0..MaxExtent, dy \in 0..MaxExtent }

Pads == (0..MaxPad) \cup {DEFAULT_PAD}

\* the lookup source of the call: one row, named "Target"
GdfOf(raw) == [n \in {"Target"} |-> raw]

InitBounds ==
    /\ VideoIdle
    /\ EaseIdle
    /\ gb_name \in {"Target", "Atlantis", "World"}
    /\ gb_raw \in RawInputs
    /\ gb_pad \in Pads
    /\ gb_state = "called"
    /\ gb_padded = Padded(<<0, 0, 0, 0>>, 0)
    /\ gb_result = <<0, 0, 0, 0>>

\* the call returns
Resolve ==
    /\ gb_state = "called"
    /\ ~get_target_bounds_raises(GdfOf(gb_raw), gb_name, gb_pad)
    /\ gb_result' = get_target_bounds(GdfOf(gb_raw), gb_name, gb_pad)
    /\ gb_padded' = IF gb_name = "Target" THEN Padded(gb_raw, gb_pad) ELSE gb_padded
    /\ gb_state' = "returned"
    /\ UNCHANGED <<gb_name, gb_raw, gb_pad>>
    /\ UNCHANGED <<videoVars, easeVars>>

\* the call raises ZeroDivisionError: pad = 0 on a geometry of no height
ResolveRaises ==
    /\ gb_state = "called"
    /\ get_target_bounds_raises(GdfOf(gb_raw), gb_name, gb_pad)
    /\ gb_padded' = Padded(gb_raw, gb_pad)
    /\ gb_state' = "raised"
    /\ UNCHANGED <<gb_name, gb_raw, gb_pad, gb_result>>
    /\ UNCHANGED <<videoVars, easeVars>>

NextBounds ==
    \/ Resolve
    \/ ResolveRaises

SpecBounds == InitBounds /\ [][NextBounds]_vars

(***************************************************************************)
(* ease_in_out along the Samples evenly spaced points k/(Samples-1) of      *)
(* [0,1], and along the progress values i/ZOOM_FRAMES of a zoom loop        *)
(***************************************************************************)
InitEase ==
    /\ VideoIdle
    /\ BoundsIdle
    /\ \/ es_grid = "samples" /\ es_d = Samples - 1
       \/ es_grid = "zoom" /\ es_d = ZOOM_FRAMES
    /\ es_n = 0
    /\ es_y = ease_in_out(0, es_d)
    /\ es_prev = ease_in_out(0, es_d)

SampleStep ==
    /\ es_grid = "samples"
    /\ es_n < es_d
    /\ es_n' = es_n + 1
    /\ es_prev' = es_y
    /\ es_y' = ease_in_out(es_n + 1, es_d)
    /\ UNCHANGED <<es_grid, es_d>>
    /\ UNCHANGED <<videoVars, boundsVars>>

\* the next t = ease_in_out(i / float(ZOOM_FRAMES)) of `for i in range(ZOOM_FRAMES)`
ZoomProgressStep ==
    /\ es_grid = "zoom"
    /\ InRange(es_n + 1, ZOOM_FRAMES)
    /\ es_n' = es_n + 1
    /\ es_prev' = es_y
    /\ es_y' = ease_in_out(es_n + 1, es_d)
    /\ UNCHANGED <<es_grid, es_d>>
    /\ UNCHANGED <<videoVars, boundsVars>>

NextEase ==
    \/ SampleStep
    \/ ZoomProgressStep

SpecEase == InitEase /\ [][NextEase]_vars


(***************************************************************************)
(* Properties                                                              *)
(***************************************************************************)
K == Len(targets)
PerTarget == ZOOM_FRAMES + HOLD_FRAMES
TotalFrames == INTRO_FRAMES + K * PerTarget + ZOOM_FRAMES + FINAL_FRAMES

\* the region of the j-th target; the world region before the first
RegionOf(j) ==
    IF j = 0 THEN WORLD_BOUNDS ELSE get_target_bounds(world, targets[j], DEFAULT_PAD)

\* caption, un-jittered bounds and shake of the n-th frame (from 0) of the
\* sequence: intro, (zoom, hold) per target, zoom out, final hold
ExpectedFrame(n) ==
    IF n < INTRO_FRAMES
    THEN [text |-> <<"Initiating Scan...", "">>, bounds |-> Fine(WORLD_BOUNDS), shake |-> 0]
    ELSE IF n < INTRO_FRAMES + K * PerTarget
    THEN LET m == n - INTRO_FRAMES
             j == (m \div PerTarget) + 1
             r == m % PerTarget
         IN  IF r < ZOOM_FRAMES
             THEN [text |-> <<"Scanning: ", targets[j]>>,
                   bounds |-> InterpBounds(RegionOf(j - 1), RegionOf(j), r),
                   shake |-> 0]
             ELSE [text |-> <<"TARGET LOCKED: ", targets[j]>>,
                   bounds |-> Fine(RegionOf(j)),
                   shake |-> SHAKE_TENTHS]
    ELSE IF n < INTRO_FRAMES + K * PerTarget + ZOOM_FRAMES
    THEN [text |-> <<"Global Analysis Complete", "">>,
          bounds |-> InterpBounds(RegionOf(K), WORLD_BOUNDS,
                                  n - (INTRO_FRAMES + K * PerTarget)),
          shake |-> 0]
    ELSE [text |-> <<"The Truth is Out There...", "">>,
          bounds |-> Fine(WORLD_BOUNDS), shake |-> 0]

\* C1: the frames of with-animation.py come in the order intro hold, then per
\* target in input order ZOOM_FRAMES zoom frames towards its region and
\* HOLD_FRAMES shaken hold frames on it, then ZOOM_FRAMES zoom frames back to
\* the world region and the final hold; the n-th frame rendered is the n-th
\* frame of that sequence, and the run ends after exactly
\* INTRO_FRAMES + K*(ZOOM_FRAMES + HOLD_FRAMES) + ZOOM_FRAMES + FINAL_FRAMES frames.
C1_PhaseOrder ==
    script = "animation" =>
        /\ frame_count <= TotalFrames
        /\ frame_count > 0 =>
              /\ frame.index = frame_count - 1
              /\ frame.text = ExpectedFrame(frame.index).text
              /\ frame.bounds = ExpectedFrame(frame.index).bounds
              /\ frame.shake = ExpectedFrame(frame.index).shake
        /\ pc = "done" => frame_count = TotalFrames

C1_Witness ==
    /\ script = "animation" /\ pc = "done" /\ K >= 2
    /\ targets[1] # targets[2]
    /\ frame_count = INTRO_FRAMES + K * (ZOOM_FRAMES + HOLD_FRAMES) + ZOOM_FRAMES + FINAL_FRAMES

\* C2: in every zoom phase (the zoom back out included) the start viewport of
\* the interpolation is the region the preceding hold phase was held on, the
\* world region for the first zoom, and the first zoom frame shows exactly it.
C2_Continuity ==
    pc \in {"zoom_in", "zoom_out"} =>
        /\ current_bounds = held
        /\ (pc = "zoom_in" /\ c = 1) \/ (pc = "zoom_out" /\ c = 0) => held = WORLD_BOUNDS
        /\ i >= 1 => frame.bounds = InterpBounds(held, target_bounds, i - 1)
        /\ i = 1 => /\ frame.xlim = << held[1] * D, held[2] * D >>
                    /\ frame.ylim = << held[3] * D, held[4] * D >>

C2_Witness ==
    /\ pc = "zoom_in" /\ c = 2 /\ i = 1
    /\ held # WORLD_BOUNDS /\ held # target_bounds
    /\ frame.xlim = << held[1] * D, held[2] * D >>

\* numerator over D of the eased progress of zoom frame idx
EasedAt(idx) == idx * idx * (3 * ZOOM_FRAMES - 2 * idx)

\* C3: zoom frame idx from A to B has each bound A[k] + (B[k]-A[k])*ease(idx/N);
\* frame 0 is A exactly; frame N-1 falls short of B on every bound where A and
\* B differ, by (1 - ease((N-1)/N)) * (B[k] - A[k]), which is not zero.
C3_Interpolation ==
    (pc \in {"zoom_in", "zoom_out"} /\ i >= 1) =>
        \A k \in 1..4 :
            LET A == current_bounds[k]
                B == target_bounds[k]
                shown == IF k <= 2 THEN frame.xlim[k] ELSE frame.ylim[k - 2]
            IN  /\ shown = A * D + (B - A) * EasedAt(i - 1)
                /\ i = 1 => shown = A * D
                /\ i = ZOOM_FRAMES =>
                      /\ B * D - shown = (D - EasedAt(ZOOM_FRAMES - 1)) * (B - A)
                      /\ D - EasedAt(ZOOM_FRAMES - 1) > 0
                      /\ A # B => shown # B * D

C3_Witness ==
    /\ pc = "zoom_in" /\ i = ZOOM_FRAMES
    /\ \A k \in 1..4 : current_bounds[k] # target_bounds[k]
    /\ frame.xlim[1] # target_bounds[1] * D

\* C4: for a resolved geometry the returned region has width:height exactly
\* 9:16, is centred on the centre of the raw bounds and contains the raw
\* bounds on all four sides.
C4_RatioAndContainment ==
    (gb_state = "returned" /\ gb_name = "Target") =>
        /\ 16 * (gb_result[2] - gb_result[1]) = 9 * (gb_result[4] - gb_result[3])
        /\ gb_result[1] + gb_result[2] = (gb_raw[1] + gb_raw[3]) * Q
        /\ gb_result[3] + gb_result[4] = (gb_raw[2] + gb_raw[4]) * Q
        /\ gb_result[1] <= gb_raw[1] * Q
        /\ gb_result[2] >= gb_raw[3] * Q
        /\ gb_result[3] <= gb_raw[2] * Q
        /\ gb_result[4] >= gb_raw[4] * Q

\* a call with the default pad whose width had to grow
C4_Witness ==
    /\ gb_state = "returned" /\ gb_name = "Target" /\ gb_pad = DEFAULT_PAD
    /\ gb_result[2] - gb_result[1] > gb_padded.w
    /\ gb_result[4] - gb_result[3] = gb_padded.h

\* C5: every frame handed to the renderer has max-x > min-x and max-y > min-y.
C5_NonDegenerate ==
    frame_count > 0 =>
        /\ frame.xlim[2] > frame.xlim[1]
        /\ frame.ylim[2] > frame.ylim[1]

\* a shaken hold frame on the region of a single-point geometry
C5_Witness ==
    /\ pc = "hold" /\ i >= 1 /\ targets[c] \in DOMAIN world
    /\ world[targets[c]][1] = world[targets[c]][3]
    /\ frame.xlim[1] # current_bounds[1] * D
    /\ frame.xlim[2] > frame.xlim[1]

\* the name of the country the loop is on has no row in the lookup source
Unresolved == c >= 1 /\ targets[c] # "World" /\ targets[c] \notin DOMAIN world

PaddedBox == Box(gb_padded)

\* C7 as stated: the padded region leaves a margin of exactly p on each side.
C7_MarginIsPad ==
    (gb_state \in {"returned", "raised"} /\ gb_name = "Target") =>
        /\ gb_raw[1] * Q - PaddedBox[1] = gb_pad * Q
        /\ PaddedBox[2] - gb_raw[3] * Q = gb_pad * Q
        /\ gb_raw[2] * Q - PaddedBox[3] = gb_pad * Q
        /\ PaddedBox[4] - gb_raw[4] * Q = gb_pad * Q

\* C7, amended: the padded region contains the raw region with a margin of
\* exactly p/2 on each of the four sides (p in all on each axis).
C7_MarginIsHalfPad ==
    (gb_state \in {"returned", "raised"} /\ gb_name = "Target") =>
        /\ 2 * (gb_raw[1] * Q - PaddedBox[1]) = gb_pad * Q
        /\ 2 * (PaddedBox[2] - gb_raw[3] * Q) = gb_pad * Q
        /\ 2 * (gb_raw[2] * Q - PaddedBox[3]) = gb_pad * Q
        /\ 2 * (PaddedBox[4] - gb_raw[4] * Q) = gb_pad * Q
        /\ PaddedBox[1] <= gb_raw[1] * Q /\ PaddedBox[2] >= gb_raw[3] * Q
        /\ PaddedBox[3] <= gb_raw[2] * Q /\ PaddedBox[4] >= gb_raw[4] * Q

C7_Witness ==
    /\ gb_state = "returned" /\ gb_name = "Target" /\ gb_pad = DEFAULT_PAD
    /\ gb_raw[3] > gb_raw[1] /\ gb_raw[4] > gb_raw[2]
    /\ 2 * (gb_raw[1] * Q - PaddedBox[1]) = DEFAULT_PAD * Q

\* C8: ease(0) = 0, ease(1) = 1, ease does not decrease along the Samples
\* evenly spaced points of [0,1], and every eased progress of a zoom loop
\* (t = i/N, 0 <= i < N) lies in [0, 1).
C8_Ease ==
    es_grid \in {"samples", "zoom"} =>
        /\ es_n = 0 => es_y = 0
        /\ (es_grid = "samples" /\ es_n = es_d) => es_y = es_d * es_d * es_d
        /\ es_grid = "samples" => es_prev <= es_y
        /\ es_grid = "zoom" => (0 <= es_y /\ es_y < es_d * es_d * es_d)

C8_Witness ==
    /\ es_grid = "samples" /\ es_n = es_d /\ es_d = Samples - 1
    /\ es_prev < es_y /\ es_y = es_d * es_d * es_d

\* the shake intensity of the phase, in tenths
PhaseShake == IF pc = "hold" THEN SHAKE_TENTHS ELSE 0

\* C9: a frame of a hold phase on C with shake s shows C moved by one offset
\* sx and one offset sy, each within [-s, s] and each added to both bounds of
\* its axis, so width and height are those of C; with s = 0 (intro and final
\* hold) the frame is C itself.
C9_HoldJitter ==
    (pc \in {"intro", "hold", "final"} /\ i >= 1) =>
        LET C == Fine(current_bounds)
            sx == frame.xlim[1] - C[1]
            sy == frame.ylim[1] - C[3]
            s == PhaseShake * ((Q * D) \div 10)
        IN  /\ frame.shake = PhaseShake
            /\ frame.xlim[2] - C[2] = sx
            /\ frame.ylim[2] - C[4] = sy
            /\ 0 - s <= sx /\ sx <= s
            /\ 0 - s <= sy /\ sy <= s
            /\ frame.xlim[2] - frame.xlim[1] = C[2] - C[1]
            /\ frame.ylim[2] - frame.ylim[1] = C[4] - C[3]
            /\ PhaseShake = 0 => (frame.xlim = <<C[1], C[2]>> /\ frame.ylim = <<C[3], C[4]>>)

C9_Witness ==
    /\ pc = "hold" /\ i >= 1
    /\ frame.xlim[1] - current_bounds[1] * D = SHAKE_TENTHS * ((Q * D) \div 10)
    /\ frame.ylim[1] - current_bounds[3] * D = 0 - SHAKE_TENTHS * ((Q * D) \div 10)
    /\ frame.xlim[2] - frame.xlim[1] = (current_bounds[2] - current_bounds[1]) * D

FirstTargets(n) == SubSeq(targets, 1, n)

\* the highlight list at each position of the two scripts
C10_Highlights ==
    /\ pc \in {"intro", "r_intro"} =>
          current_highlights = << >> /\ frame.highlights = << >>
    /\ pc = "zoom_in" =>
          /\ current_highlights = FirstTargets(c - 1)
          /\ i >= 1 => frame.highlights = FirstTargets(c - 1)
    /\ pc = "hold" =>
          /\ current_highlights = FirstTargets(c)
          /\ i >= 1 => frame.highlights = FirstTargets(c)
    /\ pc = "r_reveal" =>
          /\ current_highlights = FirstTargets(c)
          /\ c >= 1 => frame.highlights = FirstTargets(c)
    /\ pc \in {"zoom_out", "final", "done", "r_done"} =>
          /\ current_highlights = targets
          /\ (pc # "zoom_out" \/ i >= 1) => frame.highlights = targets

\* the list after a step extends the list before it
C10_Grows ==
    /\ Len(current_highlights') >= Len(current_highlights)
    /\ SubSeq(current_highlights', 1, Len(current_highlights)) = current_highlights

\* C10: the highlight list is empty during the intro, the first j-1 targets
\* while zooming to the j-th, the first j targets from the j-th hold on, all
\* targets in the zoom out and final hold; it only grows, in input order.
C10_HighlightOrder == [](C10_Highlights) /\ [][C10_Grows]_vars

C10_Witness ==
    /\ pc = "zoom_in" /\ c = 2 /\ i >= 1
    /\ frame.highlights = << targets[1] >> /\ targets[2] # targets[1]

====
